---------------------------- MODULE Spec2Model ----------------------------
(***************************************************************************)
(* A model of src/scraper.py: ResourceScraper's filename sanitizer, its    *)
(* eight source adapters, the download worker and the orchestrator         *)
(* search_and_download with its pool of download workers.                  *)
(*                                                                         *)
(* Python strings are sequences of one-character strings; None is the      *)
(* one-element sequence None below, which no string of characters equals.  *)
(***************************************************************************)
EXTENDS Integers, Sequences, FiniteSets, TLC

----------------------------------------------------------------------------
(* Strings *)

None == << "None" >>

\* Python truthiness of a value that is a string or None.
Truthy(v) == v # None /\ v # << >>

\* The characters of the model's alphabet for which str.isalnum() is true.
AlnumChars == {"a", "b", "c", "d", "e", "f", "p", "s", "u", "1"}

\* The punctuation the sanitizer keeps besides alphanumerics.
KeptPunct == {" ", "-", "_", "."}

\* The characters str.split() treats as separators.
Whitespace == {" ", "\t"}

\* The length above which a filename is truncated, and the length kept.
MaxNameLen == 150
KeepLen == 147

Ellipsis == << ".", ".", "." >>

IsKept(c) == c \in AlnumChars \/ c \in KeptPunct

\* "".join(c for c in filename if c.isalnum() or c in (' ', '-', '_', '.'))
FilterChars(filename) == SelectSeq(filename, IsKept)

\* str.split(): the maximal runs of non-whitespace characters, in order.
\* Word k runs from the k-th position that starts a run to the k-th position
\* that ends one.
WordStarts(s) ==
    {i \in 1..Len(s) : s[i] \notin Whitespace
                        /\ (i = 1 \/ s[i - 1] \in Whitespace)}

WordEnds(s) ==
    {i \in 1..Len(s) : s[i] \notin Whitespace
                        /\ (i = Len(s) \/ s[i + 1] \in Whitespace)}

\* The k-th smallest element of a set of integers.
Nth(S, k) == CHOOSE i \in S : Cardinality({j \in S : j < i}) = k - 1

Split(s) ==
    LET starts == WordStarts(s)
        ends == WordEnds(s)
    IN  [k \in 1..Cardinality(starts) |->
            SubSeq(s, Nth(starts, k), Nth(ends, k))]

\* sep.join(words)
RECURSIVE Join(_, _)
Join(words, sep) ==
    IF words = << >> THEN << >>
    ELSE IF Len(words) = 1 THEN words[1]
    ELSE words[1] \o sep \o Join(Tail(words), sep)

\* ' '.join(filename.split())
CollapseWhitespace(filename) == Join(Split(filename), << " " >>)

\* filename[:n]
Prefix(s, n) == SubSeq(s, 1, IF Len(s) < n THEN Len(s) ELSE n)

\* A sanitizer that collapses the whitespace before it filters.
sanitize_filename_collapse_first(filename) ==
    LET collapsed == CollapseWhitespace(filename)
        filtered == FilterChars(collapsed)
    IN  IF Len(filtered) > MaxNameLen
        THEN Prefix(filtered, KeepLen) \o Ellipsis
        ELSE filtered

\* A sanitizer that forgets to cut long names.
sanitize_filename_nocut(filename) == CollapseWhitespace(FilterChars(filename))

sanitize_filename(filename) ==
    LET filtered == FilterChars(filename)
        collapsed == CollapseWhitespace(filtered)
    IN  IF Len(collapsed) > MaxNameLen
        THEN Prefix(collapsed, KeepLen) \o Ellipsis
        ELSE collapsed

\* s.endswith(suffix)
EndsWith(s, suffix) ==
    /\ Len(s) >= Len(suffix)
    /\ SubSeq(s, Len(s) - Len(suffix) + 1, Len(s)) = suffix

----------------------------------------------------------------------------
(* Inputs of the sanitizer: a short arbitrary prefix, a run of one         *)
(* character whose length is 0, 1 or close to the truncation threshold,    *)
(* and a short suffix.                                                     *)

MaxPrefix == 1
Slack == 2

SanChars == {"a", " ", ".", "/", "\t"}

RECURSIVE Strs(_)
Strs(n) ==
    IF n = 0 THEN {<< >>}
    ELSE LET shorter == Strs(n - 1)
         IN  shorter \cup {Append(s, c) : s \in shorter, c \in SanChars}

Rep(c, n) == [i \in 1..n |-> c]

RunLens == {0, 1} \cup ((KeepLen - Slack)..(MaxNameLen + Slack))

SanInputs ==
    {p \o Rep(c, n) \o q : p \in Strs(MaxPrefix), c \in SanChars,
                           n \in RunLens, q \in Strs(1)}

----------------------------------------------------------------------------
(* More of Python's string operations *)

\* s.strip()
Strip(s) ==
    LET keep == {i \in 1..Len(s) : s[i] \notin Whitespace}
    IN  IF keep = {} THEN << >>
        ELSE SubSeq(s, CHOOSE i \in keep : \A j \in keep : i <= j,
                       CHOOSE i \in keep : \A j \in keep : j <= i)

\* s.startswith(prefix)
StartsWith(s, prefix) ==
    Len(s) >= Len(prefix) /\ SubSeq(s, 1, Len(prefix)) = prefix

\* sub in s
Contains(s, sub) ==
    \E i \in 1..(Len(s) - Len(sub) + 1) : SubSeq(s, i, i + Len(sub) - 1) = sub

\* s.replace(old, new), old non-empty: every occurrence, left to right
RECURSIVE Replace(_, _, _)
Replace(s, old, new) ==
    IF Len(s) < Len(old) THEN s
    ELSE IF StartsWith(s, old)
         THEN new \o Replace(SubSeq(s, Len(old) + 1, Len(s)), old, new)
         ELSE << Head(s) >> \o Replace(Tail(s), old, new)

----------------------------------------------------------------------------
(* Result records.  A record is a Python dict: a function whose domain is  *)
(* the set of keys present.  Only the keys the orchestrator and the        *)
(* download worker read are kept: title, url and pdf_url.                  *)

\* paper.get(key, default)
Get(paper, key, default) ==
    IF key \in DOMAIN paper THEN paper[key] ELSE default

\* The filter as it would be if it looked at url alone.
Eligible_url_only(paper) == Truthy(Get(paper, "url", None))

\* The filter of the submission loop: paper.get('pdf_url') or paper.get('url')
Eligible(paper) ==
    Truthy(Get(paper, "pdf_url", None)) \/ Truthy(Get(paper, "url", None))

\* The URL handed to download_paper: paper.get('pdf_url', paper.get('url'))
DownloadUrl(paper) == Get(paper, "pdf_url", Get(paper, "url", None))

----------------------------------------------------------------------------
(* HTTP.  A request is logged with its timeout; NoTimeout is a request     *)
(* issued without one, which may block for ever.                           *)

NoTimeout == 0
HttpTimeout == 30

OK == 200
Statuses == {200, 203, 404, 500}

Request(by, method, timeout) ==
    [by |-> by, method |-> method, timeout |-> timeout]

\* response.raise_for_status() raises HTTPError for 4xx and 5xx
RaisesForStatus(status) == status >= 400 /\ status < 600

\* Exception classes: RequestException is a subclass of Exception.
\* Whether "except <caught>" catches an exception of class e.
Catches(caught, e) == caught = "Exception" \/ caught = e

----------------------------------------------------------------------------
(* The filesystem: the files of the output directory.  A file is           *)
(* [path, data], data the set of <<writer, "whole" | "part">> of the       *)
(* bodies written into it since it was last opened for writing.            *)

output_dir == << "d", "o", "w", "n", "l", "o", "a", "d", "s" >>

\* os.path.join(output_dir, name)
PathJoin(dir, name) == dir \o << "/" >> \o name

PdfSuffix == << ".", "p", "d", "f" >>

\* The path as it would be if ".pdf" were appended to every name.
FilePath_always_appends(title) ==
    PathJoin(output_dir, sanitize_filename(title) \o PdfSuffix)

\* The path download_paper computes from a title.
FilePath(title) ==
    LET safe_title == sanitize_filename(title)
    IN  PathJoin(output_dir,
                 IF EndsWith(safe_title, PdfSuffix) THEN safe_title
                 ELSE safe_title \o PdfSuffix)

\* The test as it would be if the file were never found.
Exists_never(files, path) == FALSE

\* os.path.exists(path)
Exists(files, path) == \E f \in files : f.path = path

\* open(path, 'wb'): creates the file, or truncates it
OpenForWrite(files, path) ==
    {f \in files : f.path # path} \cup {[path |-> path, data |-> {}]}

\* Writing as it would be if a failed write removed its file.
WriteData_removes_partial(files, path, writer, how) ==
    IF how = "part" THEN {f \in files : f.path # path}
    ELSE {IF f.path = path
          THEN [f EXCEPT !.data = @ \cup {<< writer, how >>}]
          ELSE f : f \in files}

\* f.write(...): the writer's bytes go into the file at path, if it is there
WriteData(files, path, writer, how) ==
    {IF f.path = path
     THEN [f EXCEPT !.data = @ \cup {<< writer, how >>}]
     ELSE f : f \in files}

----------------------------------------------------------------------------
(* The source adapters.  An adapter is run against what the provider does: *)
(* resp = [exc, status, parse, entries] (PMC: also ids and second), where  *)
(*   exc     is what happens to the request: "none", it raises a           *)
(*           "RequestException" or another "Exception", or the server      *)
(*           never answers ("stall");                                      *)
(*   status  is the status code of the response;                           *)
(*   parse   is "Exception" when parsing the payload as a whole raises;    *)
(*   entries are the payload's entries, each                               *)
(*           [title, href, links, raises, pdf, sub]: its title text (None  *)
(*           when the element is missing), its link or identifier ("" when *)
(*           missing), arXiv's link elements, whether parsing it raises,   *)
(*           ERIC's PDF marker, and what its own request (Wikibooks' page  *)
(*           GET, ERIC's HEAD) meets, sub = [exc, status].                 *)
(* An adapter returns [ret, raised, reqs]: the list returned, the exception*)
(* that escapes it ("none" when it returns, "blocked" when it never does)  *)
(* and the requests it issued.                                             *)

\* What a request does when the server behaves as exc: without a timeout a
\* stalled request blocks for ever, with one it raises requests.Timeout.
RequestOutcome(exc, timeout) ==
    IF exc = "stall"
    THEN IF timeout = NoTimeout THEN "blocked" ELSE "RequestException"
    ELSE exc

Returns(list, reqs) == [ret |-> list, raised |-> "none", reqs |-> reqs]

\* An exception e reaching an adapter's outermost "except <caught>".
TopLevel(caught, e, reqs) ==
    IF e # "blocked" /\ Catches(caught, e)
    THEN Returns(<< >>, reqs)
    ELSE [ret |-> << >>, raised |-> e, reqs |-> reqs]

\* What one entry contributes: the records appended (none or one), the
\* requests issued and whether the entry's request blocks.
Skip == [recs |-> << >>, reqs |-> {}, blocked |-> FALSE]
Appends(rec) == [recs |-> << rec >>, reqs |-> {}, blocked |-> FALSE]

RECURSIVE Flatten(_)
Flatten(parts) ==
    IF parts = << >> THEN << >> ELSE Head(parts).recs \o Flatten(Tail(parts))

\* The for loop over the entries: the records appended, in order.
LoopOver(parts) ==
    [ret |-> Flatten(parts),
     reqs |-> UNION {parts[i].reqs : i \in 1..Len(parts)},
     blocked |-> \E i \in 1..Len(parts) : parts[i].blocked]

\* The result of an adapter whose top-level request was req and whose loop
\* gave loop, cut to the first cap records.
AfterLoop(req, loop, cap) ==
    IF loop.blocked
    THEN [ret |-> << >>, raised |-> "blocked", reqs |-> {req} \cup loop.reqs]
    ELSE Returns(Prefix(loop.ret, cap), {req} \cup loop.reqs)

\* items[:max_results]
Slice(items, max_results) == Prefix(items, max_results)

PdfWord == << "p", "d", "f" >>
AbsWord == << "a", "b", "s" >>

\* search_arxiv's choice of pdf_url among an entry's links.
RECURSIVE ArxivPdfUrl(_)
ArxivPdfUrl(links) ==
    IF links = << >> THEN None
    ELSE LET link == Head(links)
         IN  IF link.title = "pdf" \/ link.type = "application/pdf"
             THEN IF ~Contains(link.href, PdfWord)
                  THEN Replace(link.href, AbsWord, PdfWord) \o PdfSuffix
                  ELSE link.href
             ELSE ArxivPdfUrl(Tail(links))

arxiv_entry(e) ==
    IF e.raises \/ e.title = None THEN Skip
    ELSE LET pdf_url == ArxivPdfUrl(e.links)
         IN  IF Truthy(pdf_url)
             THEN Appends([title |-> Strip(e.title), url |-> pdf_url])
             ELSE Skip

search_arxiv(resp, max_results) ==
    LET req == Request("arxiv", "GET", HttpTimeout)
        e == RequestOutcome(resp.exc, HttpTimeout)
    IN  IF e # "none" THEN TopLevel("Exception", e, {req})
        ELSE IF resp.status = OK
        THEN IF resp.parse # "none" THEN TopLevel("Exception", resp.parse, {req})
             ELSE AfterLoop(req,
                    LoopOver([i \in 1..Len(resp.entries) |->
                                 arxiv_entry(resp.entries[i])]),
                    Len(resp.entries))
        ELSE Returns(<< >>, {req})

semantic_entry(e) ==
    IF e.raises THEN Skip
    ELSE IF ~Truthy(e.title) THEN Skip
    ELSE IF ~Truthy(e.href) THEN Skip
    ELSE Appends([title |-> e.title, url |-> e.href])

search_semantic_scholar(resp, max_results) ==
    LET req == Request("semantic", "GET", HttpTimeout)
        e == RequestOutcome(resp.exc, HttpTimeout)
    IN  IF e # "none" THEN TopLevel("Exception", e, {req})
        ELSE IF resp.status = OK
        THEN IF resp.parse # "none" THEN TopLevel("Exception", resp.parse, {req})
             ELSE AfterLoop(req,
                    LoopOver([i \in 1..Len(resp.entries) |->
                                 semantic_entry(resp.entries[i])]),
                    Len(resp.entries))
        ELSE Returns(<< >>, {req})

\* https://www.ncbi.nlm.nih.gov/pmc/articles/PMC{id}/pdf, the host left out
PmcUrl(id) == << "p", "m", "c" >> \o id \o << "/" >> \o PdfWord

pmc_entry(e) ==
    IF e.raises THEN Skip
    ELSE IF e.title = None THEN Skip
    ELSE IF e.href = << >> THEN Skip
    ELSE Appends([title |-> Strip(e.title), url |-> PmcUrl(e.href)])

\* len(results) >= max_results is tested after each append: the loop keeps
\* max_results records, and one when max_results is below 1.
BreakAt(max_results) == IF max_results < 1 THEN 1 ELSE max_results

\* The adapter without its test of the ID list.
search_pmc_always_fetches(resp, max_results) ==
    LET req1 == Request("pmc", "GET", HttpTimeout)
        req2 == Request("pmc-efetch", "GET", HttpTimeout)
        e1 == RequestOutcome(resp.exc, HttpTimeout)
        e2 == RequestOutcome(resp.second.exc, HttpTimeout)
    IN  IF e1 # "none" THEN TopLevel("Exception", e1, {req1})
        ELSE IF resp.status # OK THEN Returns(<< >>, {req1})
        ELSE IF resp.parse # "none"
             THEN TopLevel("Exception", resp.parse, {req1})
        ELSE IF e2 # "none" THEN TopLevel("Exception", e2, {req1, req2})
        ELSE IF resp.second.status # OK THEN Returns(<< >>, {req1, req2})
        ELSE IF resp.second.parse # "none"
             THEN TopLevel("Exception", resp.second.parse, {req1, req2})
        ELSE LET loop == LoopOver([i \in 1..Len(resp.entries) |->
                                      pmc_entry(resp.entries[i])])
             IN  Returns(Prefix(loop.ret, BreakAt(max_results)), {req1, req2})

search_pmc(resp, max_results) ==
    LET req1 == Request("pmc", "GET", HttpTimeout)
        req2 == Request("pmc-efetch", "GET", HttpTimeout)
        e1 == RequestOutcome(resp.exc, HttpTimeout)
        e2 == RequestOutcome(resp.second.exc, HttpTimeout)
    IN  IF e1 # "none" THEN TopLevel("Exception", e1, {req1})
        ELSE IF resp.status # OK THEN Returns(<< >>, {req1})
        ELSE IF resp.parse # "none"
             THEN TopLevel("Exception", resp.parse, {req1})
        ELSE IF ~resp.ids THEN Returns(<< >>, {req1})
        ELSE IF e2 # "none" THEN TopLevel("Exception", e2, {req1, req2})
        ELSE IF resp.second.status # OK THEN Returns(<< >>, {req1, req2})
        ELSE IF resp.second.parse # "none"
             THEN TopLevel("Exception", resp.second.parse, {req1, req2})
        ELSE LET loop == LoopOver([i \in 1..Len(resp.entries) |->
                                      pmc_entry(resp.entries[i])])
             IN  Returns(Prefix(loop.ret, BreakAt(max_results)), {req1, req2})

scholar_entry(e) ==
    IF e.raises THEN Skip
    ELSE IF e.title = None THEN Skip
    ELSE IF Truthy(e.href)
         THEN Appends([title |-> Strip(e.title), url |-> e.href])
         ELSE Skip

search_google_scholar(resp, max_results) ==
    LET req == Request("scholar", "GET", HttpTimeout)
        e == RequestOutcome(resp.exc, HttpTimeout)
        articles == Slice(resp.entries, max_results)
    IN  IF e # "none" THEN TopLevel("Exception", e, {req})
        ELSE IF resp.status = OK
        THEN IF resp.parse # "none" THEN TopLevel("Exception", resp.parse, {req})
             ELSE AfterLoop(req,
                    LoopOver([i \in 1..Len(articles) |->
                                 scholar_entry(articles[i])]),
                    Len(articles))
        ELSE Returns(<< >>, {req})

books_entry(e) ==
    IF e.raises THEN Skip
    ELSE IF ~Truthy(e.href) THEN Skip
    ELSE IF ~Truthy(e.title) THEN Skip
    ELSE Appends([title |-> e.title, url |-> e.href])

search_google_books(resp, max_results) ==
    LET req == Request("books", "GET", HttpTimeout)
        e == RequestOutcome(resp.exc, HttpTimeout)
        items == Slice(resp.entries, max_results)
    IN  IF e # "none" THEN TopLevel("Exception", e, {req})
        ELSE IF resp.status = OK
        THEN IF resp.parse # "none" THEN TopLevel("Exception", resp.parse, {req})
             ELSE AfterLoop(req,
                    LoopOver([i \in 1..Len(items) |-> books_entry(items[i])]),
                    Len(items))
        ELSE Returns(<< >>, {req})

\* https://en.wikibooks.org, https://eric.ed.gov, https://files.eric.ed.gov
\* /fulltext/ and https://openlibrary.org, each shortened to one segment
wikibooks_url == << "w", "b" >>
eric_url == << "e", "r" >>
eric_files_url == << "e", "f", "/" >>
openlibrary_url == << "o", "l" >>

Printable ==
    << "?", "p", "r", "i", "n", "t", "a", "b", "l", "e", "=", "y", "e", "s" >>

wikibooks_entry(e) ==
    IF e.raises THEN Skip
    ELSE IF e.title = None THEN Skip
    ELSE IF ~Truthy(e.href) THEN Skip
    ELSE LET book_url == IF StartsWith(e.href, << "/" >>)
                         THEN wikibooks_url \o e.href ELSE e.href
             req == Request("wikibooks-page", "GET", HttpTimeout)
             x == RequestOutcome(e.sub.exc, HttpTimeout)
         IN  IF x # "none" THEN [Skip EXCEPT !.reqs = {req}]
             ELSE IF e.sub.status = OK
             THEN [Appends([title |-> Strip(e.title),
                            url |-> book_url \o Printable])
                     EXCEPT !.reqs = {req}]
             ELSE [Skip EXCEPT !.reqs = {req}]

search_wikibooks(resp, max_results) ==
    LET req == Request("wikibooks", "GET", HttpTimeout)
        e == RequestOutcome(resp.exc, HttpTimeout)
        search_results == Slice(resp.entries, max_results)
    IN  IF e # "none" THEN TopLevel("Exception", e, {req})
        ELSE IF resp.status = OK
        THEN IF resp.parse # "none" THEN TopLevel("Exception", resp.parse, {req})
             ELSE AfterLoop(req,
                    LoopOver([i \in 1..Len(search_results) |->
                                 wikibooks_entry(search_results[i])]),
                    BreakAt(max_results))
        ELSE Returns(<< >>, {req})

IdParam == << "i", "d", "=" >>

\* s.split(sep)[-1]: what follows the last sep in s (s itself without one)
AfterLast(s, sep) ==
    LET at == {i \in 1..(Len(s) - Len(sep) + 1) :
                   SubSeq(s, i, i + Len(sep) - 1) = sep}
    IN  IF at = {} THEN s
        ELSE SubSeq(s, (CHOOSE i \in at : \A j \in at : j <= i) + Len(sep),
                    Len(s))

eric_entry(e) ==
    IF e.raises THEN Skip
    ELSE IF e.title = None THEN Skip
    ELSE IF ~Truthy(e.href) THEN Skip
    ELSE LET doc_id == IF Contains(e.href, IdParam)
                       THEN AfterLast(e.href, IdParam) ELSE None
             head == Request("eric-pdf", "HEAD", NoTimeout)
             x == RequestOutcome(e.sub.exc, NoTimeout)
             doc_info == [title |-> Strip(e.title),
                          url |-> eric_url \o << "/", "?" >> \o IdParam
                                      \o doc_id]
             with_pdf == [title |-> doc_info.title, url |-> doc_info.url,
                          pdf_url |-> eric_files_url \o doc_id \o PdfSuffix]
         IN  IF ~Truthy(doc_id) THEN Skip
             ELSE IF ~e.pdf THEN Appends(doc_info)
             ELSE IF x = "blocked"
                  THEN [recs |-> << >>, reqs |-> {head}, blocked |-> TRUE]
             ELSE IF x # "none" THEN [Skip EXCEPT !.reqs = {head}]
             ELSE IF e.sub.status = OK
                  THEN [Appends(with_pdf) EXCEPT !.reqs = {head}]
                  ELSE [Appends(doc_info) EXCEPT !.reqs = {head}]

search_eric(resp, max_results) ==
    LET req == Request("eric", "GET", NoTimeout)
        e == RequestOutcome(resp.exc, NoTimeout)
        results == Slice(resp.entries, max_results)
    IN  IF e # "none" THEN TopLevel("RequestException", e, {req})
        ELSE IF RaisesForStatus(resp.status)
             THEN TopLevel("RequestException", "RequestException", {req})
        ELSE IF resp.parse # "none"
             THEN TopLevel("RequestException", resp.parse, {req})
        ELSE AfterLoop(req,
               LoopOver([i \in 1..Len(results) |-> eric_entry(results[i])]),
               Len(results))

openlibrary_entry(e) ==
    IF e.raises THEN Skip
    ELSE IF e.title = None THEN Skip
    ELSE IF ~Truthy(Strip(e.title)) THEN Skip
    ELSE Appends([title |-> Strip(e.title),
                  url |-> IF Truthy(e.href) THEN openlibrary_url \o e.href
                          ELSE None])

search_openlibrary(resp, max_results) ==
    LET req == Request("openlibrary", "GET", NoTimeout)
        e == RequestOutcome(resp.exc, NoTimeout)
        docs == Slice(resp.entries, max_results)
    IN  IF e # "none" THEN TopLevel("Exception", e, {req})
        ELSE IF RaisesForStatus(resp.status)
             THEN TopLevel("Exception", "RequestException", {req})
        ELSE IF resp.parse # "none"
             THEN TopLevel("Exception", resp.parse, {req})
        ELSE AfterLoop(req,
               LoopOver([i \in 1..Len(docs) |-> openlibrary_entry(docs[i])]),
               Len(docs))

\* The adapters in the order search_and_download calls them.
NumAdapters == 8
Adapters == 1..NumAdapters

PMC == 3

RunAdapter(k, resp, max_results) ==
    CASE k = 1 -> search_arxiv(resp, max_results)
      [] k = 2 -> search_semantic_scholar(resp, max_results)
      [] k = 3 -> search_pmc(resp, max_results)
      [] k = 4 -> search_google_scholar(resp, max_results)
      [] k = 5 -> search_google_books(resp, max_results)
      [] k = 6 -> search_wikibooks(resp, max_results)
      [] k = 7 -> search_eric(resp, max_results)
      [] k = 8 -> search_openlibrary(resp, max_results)

----------------------------------------------------------------------------
(* What the providers may answer: the payloads are kept small.             *)

MaxEntries == 2
MaxLimit == 2
MaxFaults == 2

TitleA == << "a" >>
TitleB == << "b" >>
BlankTitle == << " " >>

SubOk == [exc |-> "none", status |-> OK]

Entry(title, href) ==
    [title |-> title, href |-> href, links |-> << >>, raises |-> FALSE,
     pdf |-> FALSE, sub |-> SubOk]

PdfLink ==
    [title |-> "pdf", type |-> "application/pdf",
     href |-> << "p", "d", "f", "/", "1" >>]
TaggedAbsLink ==
    [title |-> "pdf", type |-> "", href |-> << "a", "b", "s", "/", "1" >>]
AbsLink ==
    [title |-> "", type |-> "text/html",
     href |-> << "a", "b", "s", "/", "1" >>]

SomeUrl == << "u", "1" >>
SomePath == << "/", "b" >>
EricHref == << "?" >> \o IdParam \o << "e", "1" >>

\* Entries every provider may send: a good one, one whose title text is
\* blank, one without title, one without link, and one whose parsing raises.
CommonEntries(href) ==
    {Entry(TitleA, href), Entry(BlankTitle, href),
     Entry(None, href), Entry(TitleA, << >>),
     [Entry(TitleA, href) EXCEPT !.raises = TRUE]}

SubResponses ==
    {SubOk, [exc |-> "none", status |-> 404],
     [exc |-> "RequestException", status |-> OK],
     [exc |-> "stall", status |-> OK]}

EntriesOf(k) ==
    CASE k = 1 ->
           {[Entry(t, << >>) EXCEPT !.links = ls] :
                t \in {TitleA, BlankTitle, None},
                ls \in {<< AbsLink, PdfLink >>, << TaggedAbsLink >>,
                        << AbsLink >>, << >>}}
           \cup {[Entry(TitleA, << >>) EXCEPT !.raises = TRUE]}
      [] k = 2 -> CommonEntries(SomeUrl) \cup {Entry(<< >>, SomeUrl)}
      [] k = 3 -> CommonEntries(<< "1" >>)
      [] k = 4 -> CommonEntries(SomeUrl)
      [] k = 5 -> CommonEntries(SomeUrl) \cup {Entry(<< >>, SomeUrl)}
      [] k = 6 ->
           CommonEntries(SomePath)
           \cup {[Entry(TitleA, SomePath) EXCEPT !.sub = sub] :
                    sub \in SubResponses}
      [] k = 7 ->
           CommonEntries(EricHref) \cup {Entry(TitleA, SomePath)}
           \cup {[Entry(TitleA, EricHref) EXCEPT !.pdf = TRUE, !.sub = sub] :
                    sub \in SubResponses}
      [] k = 8 -> CommonEntries(SomePath) \cup {Entry(TitleB, SomePath)}

RECURSIVE SeqsUpTo(_, _)
SeqsUpTo(S, n) ==
    IF n = 0 THEN {<< >>}
    ELSE LET shorter == SeqsUpTo(S, n - 1)
         IN  shorter \cup {Append(q, x) : q \in shorter, x \in S}

Failures == {"RequestException", "Exception", "stall"}

SecondResponses ==
    {[exc |-> x, status |-> OK, parse |-> "none"] : x \in Failures}
    \cup {[exc |-> "none", status |-> st, parse |-> "none"] : st \in Statuses}
    \cup {[exc |-> "none", status |-> OK, parse |-> "Exception"]}

\* The answers adapter k may meet, with at most n entries.
PlainResponses(k, n) ==
    {[exc |-> x, status |-> OK, parse |-> "none", entries |-> << >>] :
        x \in Failures}
    \cup {[exc |-> "none", status |-> st, parse |-> "Exception",
           entries |-> << >>] : st \in Statuses}
    \cup {[exc |-> "none", status |-> st, parse |-> "none", entries |-> es] :
             st \in Statuses, es \in SeqsUpTo(EntriesOf(k), n)}

Responses(k, n) ==
    IF k = PMC
    THEN {[exc |-> r.exc, status |-> r.status, parse |-> r.parse,
           entries |-> << >>, ids |-> FALSE,
           second |-> [exc |-> "none", status |-> OK, parse |-> "none"]] :
             r \in PlainResponses(k, 0)}
         \cup {[exc |-> "none", status |-> st, parse |-> "none",
                entries |-> << >>, ids |-> TRUE,
                second |-> [exc |-> "none", status |-> OK, parse |-> "none"]] :
                  st \in Statuses \ {OK}}
         \cup {[exc |-> "none", status |-> OK, parse |-> "none",
                entries |-> << >>, ids |-> TRUE, second |-> sec] :
                  sec \in SecondResponses}
         \cup {[exc |-> "none", status |-> OK, parse |-> "none",
                entries |-> es, ids |-> TRUE,
                second |-> [exc |-> "none", status |-> OK, parse |-> "none"]] :
                  es \in SeqsUpTo(EntriesOf(k), n)}
    ELSE PlainResponses(k, n)

\* The files the output directory may hold before the call.
InitialFiles ==
    {{}, {[path |-> FilePath(TitleA), data |-> {<< 0, "whole" >>}]}}

----------------------------------------------------------------------------
VARIABLES
    san_in, san_out, san_called,  \* one call of sanitize_filename
    san_twice,     \* sanitize_filename of its own result, None before
    call,          \* one call of an adapter alone: [adapter, resp]
    max_results,   \* the limit search_and_download was called with
    mock,          \* the lists the adapters return when they are mocked
    met,           \* what the adapter called by the latest step met
    pc,            \* where search_and_download is
    results,       \* the lists the adapters called so far returned
    all_results,   \* the accumulated records
    submitted,     \* how many of all_results the submission loop has seen
    futures,       \* the download tasks, in submission order
    early,         \* as_completed: the futures finished when it was called,
                   \* in the order they will be yielded
    waiter,        \* as_completed: the futures finished since, in order
    completed,     \* history: the futures in the order they finished, each
                   \* with whether as_completed had been called by then;
                   \* kept only by the specification that asks for it
    downloaded,    \* the (title, path) pairs collected
    fs,            \* the files of the output directory
    requests,      \* the HTTP requests the latest step issued
    faults         \* the download failures the environment has injected

sanVars == << san_in, san_out, san_called, san_twice >>

\* The order of completion is not recorded, or is and nothing finished yet.
NotRecorded == [on |-> FALSE, order |-> << >>]
Recorded == [on |-> TRUE, order |-> << >>]

\* No adapter is called alone.
NoCall == [adapter |-> 0]

orchVars ==
    << max_results, mock, met, pc, results, all_results, submitted, futures, early,
       waiter, completed, downloaded, fs, requests, faults >>

vars ==
    << san_in, san_out, san_called, san_twice, call, max_results, mock, met, pc, results,
       all_results, submitted, futures, early, waiter, completed, downloaded,
       fs,
       requests, faults >>

\* What adapter k met at the top level: how its request went, the status
\* of the response and whether parsing the payload raised (for PMC's second
\* request when there was one).
Met(k, resp) ==
    IF k = PMC /\ resp.ids /\ resp.status = OK
    THEN [adapter |-> k, exc |-> resp.second.exc,
          status |-> resp.second.status, parse |-> resp.second.parse]
    ELSE [adapter |-> k, exc |-> resp.exc, status |-> resp.status,
          parse |-> resp.parse]

\* No adapter was called by the latest step.
NoResponse ==
    [adapter |-> 0, exc |-> "none", status |-> OK, parse |-> "none"]

\* A pool with one worker more.
max_workers_one_more == 3 + 1

\* The pool of search_and_download: ThreadPoolExecutor(max_workers=3)
max_workers == 3

SanIdle ==
    /\ san_in = << >> /\ san_out = << >> /\ san_called = FALSE /\ san_twice = None
    /\ call = NoCall

\* search_and_download is entered: nothing searched, nothing submitted.
OrchStart ==
    /\ met = NoResponse
    /\ pc = "search"
    /\ results = << >>
    /\ all_results = << >>
    /\ submitted = 0
    /\ futures = << >>
    /\ early = << >>
    /\ waiter = << >>
    /\ downloaded = << >>
    /\ requests = {}

Init ==
    /\ completed = NotRecorded
    /\ SanIdle
    /\ max_results \in {1, MaxLimit}
    /\ mock = << >>
    /\ fs \in InitialFiles
    /\ faults = 0
    /\ OrchStart

----------------------------------------------------------------------------
(* search_and_download *)

\* The lists put together last first, as if each were put in front.
RECURSIVE Concat_in_front(_)
Concat_in_front(lists) ==
    IF lists = << >> THEN << >>
    ELSE Concat_in_front(Tail(lists)) \o Head(lists)

RECURSIVE Concat(_)
Concat(lists) ==
    IF lists = << >> THEN << >> ELSE Head(lists) \o Concat(Tail(lists))

Running == {i \in 1..Len(futures) : futures[i].state = "RUNNING"}
Finished == {i \in 1..Len(futures) : futures[i].state = "FINISHED"}

\* The next adapter is called against what its provider answers.  It
\* returns a list, or its exception escapes search_and_download, or it
\* never returns.
SearchStep ==
    /\ pc = "search"
    /\ Len(results) < NumAdapters
    /\ LET k == Len(results) + 1
           room == MaxEntries - Len(Concat(results))
       IN  \E resp \in Responses(k, room) :
             LET r == RunAdapter(k, resp, max_results)
             IN  /\ Len(r.ret) <= room
                 /\ requests' = r.reqs
                 /\ met' = Met(k, resp)
                 /\ IF r.raised = "none"
                    THEN /\ results' = Append(results, r.ret)
                         /\ pc' = pc
                    ELSE /\ results' = results
                         /\ pc' = IF r.raised = "blocked" THEN "blocked"
                                  ELSE "raised"
    /\ UNCHANGED << sanVars, call, max_results, mock, all_results, submitted,
                    futures, early, waiter, completed, downloaded, fs, faults >>

\* A mocked adapter returns its canned list.
MockSearchStep ==
    /\ pc = "search"
    /\ Len(results) < NumAdapters
    /\ results' = Append(results, mock[Len(results) + 1])
    /\ requests' = {}
    /\ UNCHANGED << sanVars, call, max_results, mock, met, pc, all_results, submitted,
                    futures, early, waiter, completed, downloaded, fs, faults >>

\* all_results.extend(...) for the eight lists, and the test for no result.
Combine ==
    /\ pc = "search"
    /\ Len(results) = NumAdapters
    /\ all_results' = Concat(results)
    /\ pc' = IF Concat(results) = << >> THEN "done" ELSE "submit"
    /\ requests' = {}
    /\ met' = NoResponse
    /\ UNCHANGED << sanVars, call, max_results, mock, results, submitted, futures,
                    early, waiter, completed, downloaded, fs, faults >>

NewFuture(n, paper) ==
    [paper |-> n, url |-> DownloadUrl(paper), title |-> paper.title,
     state |-> "PENDING", step |-> "queued", filepath |-> None,
     success |-> FALSE, fetches |-> 0, status |-> 0, error |-> "none"]

\* One round of the comprehension that builds future_to_paper: the next
\* record is submitted to the pool if it passes the filter.
Submit ==
    /\ pc = "submit"
    /\ submitted < Len(all_results)
    /\ LET n == submitted + 1
           paper == all_results[n]
       IN  futures' = IF Eligible(paper)
                      THEN Append(futures, NewFuture(n, paper))
                      ELSE futures
    /\ submitted' = submitted + 1
    /\ requests' = {}
    /\ UNCHANGED << sanVars, call, max_results, mock, met, pc, results, all_results,
                    early, waiter, completed, downloaded, fs, faults >>

\* The elements of a set of integers in ascending and in descending order.
RECURSIVE Ascending(_)
Ascending(S) ==
    IF S = {} THEN << >>
    ELSE LET m == CHOOSE i \in S : \A j \in S : i <= j
         IN  << m >> \o Ascending(S \ {m})

Reverse(q) == [i \in 1..Len(q) |-> q[Len(q) + 1 - i]]

\* The orders in which iterating over a set of futures may give them: a set
\* has no order of its own; the model takes submission order or its reverse.
SetOrders(S) == {Ascending(S), Reverse(Ascending(S))}

\* concurrent.futures.as_completed(future_to_paper) is entered: the futures
\* already finished are set aside, to be yielded first in the order the set
\* of them iterates; the others will be reported by the waiter.
AsCompleted ==
    /\ pc = "submit"
    /\ submitted = Len(all_results)
    /\ early' \in SetOrders(Finished)
    /\ pc' = "collect"
    /\ requests' = {}
    /\ UNCHANGED << sanVars, call, max_results, mock, met, results, all_results,
                    submitted, futures, waiter, completed, downloaded, fs, faults >>

\* The body of the for loop as it would be without its test of success.
Collected_unconditionally(i) ==
    Append(downloaded,
           << all_results[futures[i].paper].title, futures[i].filepath >>)

\* The body of the for loop for future i.
Collected(i) ==
    IF futures[i].success
    THEN Append(downloaded,
                << all_results[futures[i].paper].title, futures[i].filepath >>)
    ELSE downloaded

\* The loop as it would be if as_completed gave the futures the waiter
\* reports before those that had finished when it was called.
Collect_waiter_first ==
    /\ pc = "collect"
    /\ \/ /\ waiter # << >>
          /\ early' = early
          /\ waiter' = Tail(waiter)
          /\ downloaded' = Collected(Head(waiter))
       \/ /\ waiter = << >>
          /\ early # << >>
          /\ early' = Tail(early)
          /\ waiter' = waiter
          /\ downloaded' = Collected(Head(early))
    /\ requests' = {}
    /\ UNCHANGED << sanVars, call, max_results, mock, met, pc, results, all_results,
                    submitted, futures, completed, fs, faults >>

\* as_completed yields a future: first those finished when it was called,
\* then the others in the order they finish.
Collect ==
    /\ pc = "collect"
    /\ \/ /\ early # << >>
          /\ early' = Tail(early)
          /\ waiter' = waiter
          /\ downloaded' = Collected(Head(early))
       \/ /\ early = << >>
          /\ waiter # << >>
          /\ early' = early
          /\ waiter' = Tail(waiter)
          /\ downloaded' = Collected(Head(waiter))
    /\ requests' = {}
    /\ UNCHANGED << sanVars, call, max_results, mock, met, pc, results, all_results,
                    submitted, futures, completed, fs, faults >>

\* Every future was yielded: the pool is shut down and downloaded returned.
Return ==
    /\ pc = "collect"
    /\ early = << >>
    /\ waiter = << >>
    /\ Finished = 1..Len(futures)
    /\ pc' = "done"
    /\ requests' = {}
    /\ UNCHANGED << sanVars, call, max_results, mock, met, results, all_results,
                    submitted, futures, early, waiter, completed, downloaded, fs, faults >>

----------------------------------------------------------------------------
(* download_paper, run by a worker of the pool *)

\* The status test as it would be if every 2xx status passed.
StatusOk_any_2xx(status) == status >= 200 /\ status < 300

\* response.status_code == 200
StatusOk(status) == status = OK

\* download_paper returns (success, filepath) for future i.  What the call
\* met is kept with the future: how often it called session.get, the status
\* of the response (0 without one) and the step that raised ("none" if none).
Finish(i, success, filepath, fetches, status, error) ==
    /\ futures' = [futures EXCEPT ![i].state = "FINISHED",
                                  ![i].step = "returned",
                                  ![i].success = success,
                                  ![i].filepath = filepath,
                                  ![i].fetches = fetches,
                                  ![i].status = status,
                                  ![i].error = error]
    /\ waiter' = IF pc = "collect" THEN Append(waiter, i) ELSE waiter
    /\ completed' = IF completed.on
                    THEN [completed EXCEPT
                            !.order = Append(@, << i, pc = "collect" >>)]
                    ELSE completed

\* The except clause of download_paper: the exception is logged and the
\* call returns (False, None).
Except(i, fetches, status, error) ==
    Finish(i, FALSE, None, fetches, status, error)

\* The oldest pending task, when a worker is free to take it.
CanStart(i) ==
    /\ i \in 1..Len(futures)
    /\ futures[i].state = "PENDING"
    /\ \A j \in 1..(i - 1) : futures[j].state # "PENDING"
    /\ Cardinality(Running) < max_workers

\* A worker takes task i: the output directory is ensured, the path is
\* computed, and an existing file ends the call with success.  os.makedirs
\* can raise only while the directory holds no file: with one in it the
\* directory exists.
Start(i) ==
    /\ CanStart(i)
    /\ LET filepath == FilePath(futures[i].title)
       IN  \/ /\ fs = {}
              /\ faults < MaxFaults
              /\ faults' = faults + 1
              /\ Except(i, 0, 0, "makedirs")
           \/ /\ Exists(fs, filepath)
              /\ faults' = faults
              /\ Finish(i, TRUE, filepath, 0, 0, "none")
           \/ /\ ~Exists(fs, filepath)
              /\ faults' = faults
              /\ futures' = [futures EXCEPT ![i].state = "RUNNING",
                                            ![i].step = "get",
                                            ![i].filepath = filepath]
              /\ waiter' = waiter
              /\ completed' = completed
    /\ requests' = {}
    /\ UNCHANGED << sanVars, call, max_results, mock, met, pc, results, all_results,
                    submitted, early, downloaded, fs >>

\* self.session.get(url, stream=True, timeout=30) and the status test.
\* requests refuses a URL that is empty or None; otherwise the request
\* raises, or a response arrives.
Fetch(i) ==
    /\ i \in 1..Len(futures)
    /\ futures[i].step = "get"
    /\ requests' = {Request("download", "GET", HttpTimeout)}
    /\ \/ /\ ~Truthy(futures[i].url)
          /\ faults' = faults
          /\ Except(i, 1, 0, "get")
       \/ /\ Truthy(futures[i].url)
          /\ faults < MaxFaults
          /\ faults' = faults + 1
          /\ Except(i, 1, 0, "get")
       \/ /\ Truthy(futures[i].url)
          /\ \E status \in Statuses :
               /\ status # OK => faults < MaxFaults
               /\ faults' = IF status # OK THEN faults + 1 ELSE faults
               /\ IF StatusOk(status)
                  THEN /\ futures' = [futures EXCEPT ![i].step = "open",
                                                     ![i].fetches = 1,
                                                     ![i].status = status]
                       /\ waiter' = waiter
                       /\ completed' = completed
                  ELSE Finish(i, FALSE, None, 1, status, "none")
    /\ UNCHANGED << sanVars, call, max_results, mock, met, pc, results, all_results,
                    submitted, early, downloaded, fs >>

\* open(filepath, 'wb')
Open(i) ==
    /\ i \in 1..Len(futures)
    /\ futures[i].step = "open"
    /\ \/ /\ faults < MaxFaults
          /\ faults' = faults + 1
          /\ fs' = fs
          /\ Except(i, 1, futures[i].status, "open")
       \/ /\ faults' = faults
          /\ fs' = OpenForWrite(fs, futures[i].filepath)
          /\ futures' = [futures EXCEPT ![i].step = "write"]
          /\ waiter' = waiter
          /\ completed' = completed
    /\ requests' = {}
    /\ UNCHANGED << sanVars, call, max_results, mock, met, pc, results, all_results,
                    submitted, early, downloaded >>

\* The loop over response.iter_content writing the chunks, and the return:
\* the whole body is written, or reading or writing a chunk raises and what
\* was written stays.
Write(i) ==
    /\ i \in 1..Len(futures)
    /\ futures[i].step = "write"
    /\ \/ /\ faults < MaxFaults
          /\ faults' = faults + 1
          /\ fs' = WriteData(fs, futures[i].filepath, i, "part")
          /\ Except(i, 1, futures[i].status, "write")
       \/ /\ faults' = faults
          /\ fs' = WriteData(fs, futures[i].filepath, i, "whole")
          /\ Finish(i, TRUE, futures[i].filepath, 1, futures[i].status, "none")
    /\ requests' = {}
    /\ UNCHANGED << sanVars, call, max_results, mock, met, pc, results, all_results,
                    submitted, early, downloaded >>

Worker ==
    \/ \E i \in 1..Len(futures) : Start(i)
    \/ \E i \in 1..Len(futures) : Fetch(i)
    \/ \E i \in 1..Len(futures) : Open(i)
    \/ \E i \in 1..Len(futures) : Write(i)

Orchestrate == Combine \/ Submit \/ AsCompleted \/ Collect \/ Return

Next == SearchStep \/ Orchestrate \/ Worker

Spec == Init /\ [][Next]_vars

----------------------------------------------------------------------------
(* search_and_download with its adapters mocked: each adapter returns a    *)
(* canned list of records, of any shape a dict may have.                   *)

MaxTasks == 4

Rec(title, url) == [title |-> title, url |-> url]
RecPdf(title, url, pdf_url) ==
    [title |-> title, url |-> url, pdf_url |-> pdf_url]

\* Records of every shape the filter and the URL choice tell apart, with
\* titles that are distinct (a, b), that meet in one path (a, a/, a.pdf) and
\* that are empty.
MockRecords ==
    {Rec(TitleA, SomeUrl),
     Rec(<< "a", "/" >>, SomeUrl),
     Rec(TitleA \o PdfSuffix, SomeUrl),
     Rec(TitleB, SomeUrl),
     Rec(<< >>, SomeUrl),
     Rec(TitleB, None),
     Rec(TitleB, << >>),
     [title |-> TitleB],
     RecPdf(TitleB, << >>, << >>),
     RecPdf(TitleB, SomeUrl, << >>),
     RecPdf(TitleB, SomeUrl, << "u", "2" >>),
     RecPdf(TitleB, None, << "u", "2" >>)}

NoLists == [k \in Adapters |-> << >>]

\* Two records, from the first and from the last adapter.
PairScenarios ==
    {[NoLists EXCEPT ![1] = << r1 >>, ![NumAdapters] = << r2 >>] :
        r1 \in MockRecords, r2 \in MockRecords}

\* n eligible records with pairwise distinct titles a, aa, aaa, ..., one per
\* adapter and the rest from the last one.
PoolRecord(i) == Rec(Rep("a", i), SomeUrl)

PoolScenarios ==
    {[k \in Adapters |->
        IF k < NumAdapters
        THEN IF k <= n THEN << PoolRecord(k) >> ELSE << >>
        ELSE [j \in 1..(IF n >= k THEN n - k + 1 ELSE 0) |->
                 PoolRecord(k + j - 1)]] : n \in 0..MaxTasks}

\* The end-to-end scenario: every adapter returns one eligible and one
\* ineligible record.  The titles sanitize to pairwise distinct names; one
\* of them ends in ".pdf", two differ only in what the sanitizer removes or
\* collapses.
E2ETitles ==
    << TitleA \o PdfSuffix, TitleB, << "c" >>, << "a", "/", "b" >>,
       << "a", " ", " ", "b" >>, << "d" >>, << "e" >>, << "f" >> >>

\* The ineligible records have titles of their own: s, ss, sss, ...
IneligibleTitle(k) == Rep("s", k)

Ineligible(k) ==
    CASE k % 4 = 0 -> Rec(IneligibleTitle(k), None)
      [] k % 4 = 1 -> Rec(IneligibleTitle(k), << >>)
      [] k % 4 = 2 -> [title |-> IneligibleTitle(k)]
      [] k % 4 = 3 -> RecPdf(IneligibleTitle(k), << >>, << >>)

\* Adapter k returns its eligible record first when k is odd, last when k
\* is even.
E2EScenario ==
    [k \in Adapters |->
        IF k % 2 = 1 THEN << Rec(E2ETitles[k], SomeUrl), Ineligible(k) >>
        ELSE << Ineligible(k), Rec(E2ETitles[k], SomeUrl) >>]

\* The downloads of a pair of records meet up to MaxFaults failures, those
\* of a pool scenario at most one.
MockInit ==
    /\ completed = NotRecorded
    /\ SanIdle
    /\ max_results = MaxLimit
    /\ mock \in PairScenarios \cup PoolScenarios
    /\ fs \in InitialFiles
    /\ faults = IF mock \in PairScenarios THEN 0 ELSE MaxFaults - 1
    /\ OrchStart

MockNext == MockSearchStep \/ Orchestrate \/ Worker

MockSpec == MockInit /\ [][MockNext]_vars

\* The pool scenarios alone: records with distinct titles, whose downloads
\* meet at most one failure.  The order of completion is recorded.
PoolInit ==
    /\ completed = Recorded
    /\ SanIdle
    /\ max_results = MaxLimit
    /\ mock \in PoolScenarios
    /\ fs \in InitialFiles
    /\ faults = MaxFaults - 1
    /\ OrchStart

PoolSpec == PoolInit /\ [][MockNext]_vars

\* The end-to-end scenario: the output directory starts empty and the
\* environment injects no failure, so that every fetch returns 200.
E2EInit ==
    /\ completed = NotRecorded
    /\ SanIdle
    /\ max_results = MaxLimit
    /\ mock = E2EScenario
    /\ fs = {}
    /\ faults = MaxFaults
    /\ OrchStart

E2ESpec == E2EInit /\ [][MockNext]_vars

----------------------------------------------------------------------------
(* One adapter alone, called against one answer of its provider *)

Calls ==
    UNION {{[adapter |-> k, resp |-> resp] : resp \in Responses(k, MaxEntries)} :
              k \in Adapters}

AdapterInit ==
    /\ completed = NotRecorded
    /\ san_in = << >> /\ san_out = << >> /\ san_called = FALSE /\ san_twice = None
    /\ call \in Calls
    /\ max_results \in {1, MaxLimit}
    /\ mock = << >>
    /\ fs = {}
    /\ faults = 0
    /\ OrchStart

\* The adapter is called: it returns its list, raises or never returns.
AdapterCall ==
    /\ pc = "search"
    /\ call # NoCall
    /\ LET r == RunAdapter(call.adapter, call.resp, max_results)
       IN  /\ requests' = r.reqs
           /\ results' = << r.ret >>
           /\ pc' = IF r.raised = "none" THEN "returned"
                    ELSE IF r.raised = "blocked" THEN "blocked" ELSE "raised"
    /\ UNCHANGED << sanVars, call, max_results, mock, met, all_results,
                    submitted, futures, early, waiter, completed, downloaded, fs, faults >>

AdapterNext == AdapterCall

AdapterSpec == AdapterInit /\ [][AdapterNext]_vars

----------------------------------------------------------------------------
(* The sanitizer alone *)

OrchIdle ==
    /\ completed = NotRecorded
    /\ max_results = 1
    /\ mock = << >>
    /\ fs = {}
    /\ faults = 0
    /\ OrchStart

SanInit ==
    /\ san_in \in SanInputs
    /\ san_out = << >>
    /\ san_called = FALSE
    /\ san_twice = None
    /\ call = NoCall
    /\ OrchIdle

\* One call sanitize_filename(san_in).
SanitizeCall ==
    /\ ~san_called
    /\ san_out' = sanitize_filename(san_in)
    /\ san_called' = TRUE
    /\ UNCHANGED << san_in, san_twice, call, orchVars >>

\* A second call, on the result of the first: sanitize_filename(san_out).
SanitizeAgain ==
    /\ san_called
    /\ san_twice = None
    /\ san_twice' = sanitize_filename(san_out)
    /\ UNCHANGED << san_in, san_out, san_called, call, orchVars >>

SanNext == SanitizeCall \/ SanitizeAgain

SanitizeSpec == SanInit /\ [][SanNext]_vars

----------------------------------------------------------------------------
(* Properties of the pool and of the submission loop *)

\* C1: during a call of search_and_download, whatever the number of eligible
\* records, at most 3 download_paper tasks are executing (started and not
\* yet returned) at the same time.
C1_PoolBound ==
    Cardinality({i \in 1..Len(futures) : futures[i].state = "RUNNING"}) <= 3

\* Three tasks are executing while a fourth waits for a worker.
C1_Witness ==
    /\ Cardinality({i \in 1..Len(futures) : futures[i].state = "RUNNING"}) = 3
    /\ \E i \in 1..Len(futures) : futures[i].state = "PENDING"

\* C2: a record whose url and pdf_url are both empty or absent is never
\* submitted as a download task, so that no download_paper call, no fetch and
\* no file is made for it, and exactly one task is submitted for every
\* record that has a non-empty url or pdf_url.
C2_OneTaskPerEligibleRecord ==
    LET HasUrl(paper) ==
            \E key \in {"url", "pdf_url"} :
                /\ key \in DOMAIN paper
                /\ paper[key] # None
                /\ paper[key] # << >>
        TasksOf(n) == {i \in 1..Len(futures) : futures[i].paper = n}
    IN  /\ submitted <= Len(all_results)
        /\ pc \in {"collect", "done"} => submitted = Len(all_results)
        /\ \A n \in 1..submitted :
               Cardinality(TasksOf(n)) = IF HasUrl(all_results[n]) THEN 1 ELSE 0
        /\ \A i \in 1..Len(futures) :
               /\ futures[i].paper \in 1..submitted
               /\ HasUrl(all_results[futures[i].paper])
        /\ \A f \in fs : \A w \in f.data :
               w[1] # 0 =>
                   /\ w[1] \in 1..Len(futures)
                   /\ HasUrl(all_results[futures[w[1]].paper])

\* The call is over for a record without URL and one with a URL: the only
\* task is the second record's, and it wrote the only file.
C2_Witness ==
    /\ pc = "done"
    /\ Len(all_results) = 2
    /\ all_results[1] \in {Rec(TitleB, None), Rec(TitleB, << >>),
                           [title |-> TitleB], RecPdf(TitleB, << >>, << >>)}
    /\ Len(futures) = 1
    /\ futures[1].paper = 2
    /\ futures[1].success
    /\ futures[1].fetches = 1
    /\ Cardinality(fs) = 1

\* C3: a record is submitted for download only if its title is non-empty:
\* of the records the adapters return, one whose title is the empty string
\* is never passed to download_paper.
C3_NoTaskWithEmptyTitle ==
    \A i \in 1..Len(futures) : all_results[futures[i].paper].title # << >>

----------------------------------------------------------------------------
(* Properties of download_paper *)

\* C4: when the file at the path computed from the title already exists,
\* download_paper returns (True, that path) without any HTTP request and
\* leaves the file as it is; hence of two sequential calls with the same
\* title, the first of which succeeds, the second returns success without
\* a fetch, so that the two issue the first call's one fetch in total.
C4_ExistingFileIsNotFetched ==
    [][\A j \in 1..Len(futures) :
          LET path == FilePath(futures[j].title)
              starts == /\ futures[j].state = "PENDING"
                        /\ futures'[j].state # "PENDING"
              returned_at_once ==
                  /\ futures'[j].state = "FINISHED"
                  /\ futures'[j].success
                  /\ futures'[j].filepath = path
                  /\ futures'[j].fetches = 0
                  /\ fs' = fs
                  /\ requests' = {}
          IN  /\ (starts /\ \E f \in fs : f.path = path) => returned_at_once
              /\ \A i \in 1..Len(futures) :
                    ( /\ starts
                      /\ i # j
                      /\ futures[i].state = "FINISHED"
                      /\ futures[i].success
                      /\ FilePath(futures[i].title) = path )
                    => (returned_at_once /\ futures[i].fetches <= 1)]_vars

\* Two calls with the same title, one after the other, into a directory
\* without the file: the first fetched and wrote it, the second found it.
C4_Witness ==
    \E i, j \in 1..Len(futures) :
        /\ futures[i].title = futures[j].title
        /\ futures[i].state = "FINISHED" /\ futures[j].state = "FINISHED"
        /\ futures[i].success /\ futures[j].success
        /\ futures[i].fetches = 1
        /\ futures[j].fetches = 0
        /\ \E f \in fs : f.path = futures[j].filepath /\ f.data = {<< i, "whole" >>}

\* C5: when the target file does not exist yet, download_paper returns
\* (True, path) only if the response status is 200 and the whole body was
\* written; for any other status and for an exception at any step (creating
\* the directory, the request, opening the file, reading or writing a chunk)
\* it returns (False, None), and it never raises to its caller.
C5_SuccessOnlyOn200 ==
    [][\A i \in 1..Len(futures) :
          (futures[i].state # "FINISHED" /\ futures'[i].state = "FINISHED") =>
              LET path == FilePath(futures[i].title)
                  existed == futures[i].state = "PENDING"
                             /\ \E f \in fs : f.path = path
                  after == futures'[i]
              IN  /\ after.step = "returned"
                  /\ (after.success /\ ~existed) =>
                        /\ after.status = 200
                        /\ after.fetches = 1
                        /\ after.error = "none"
                        /\ after.filepath = path
                        /\ \E f \in fs' : f.path = path
                                          /\ << i, "whole" >> \in f.data
                  /\ (~existed /\ (after.status # 200 \/ after.error # "none"))
                        => (~after.success /\ after.filepath = None)
                  /\ ~after.success => after.filepath = None]_vars

\* Two calls have returned: one met an exception while writing, which left
\* a partial file, and returned (False, None); the other met a status 200,
\* wrote the whole body and returned (True, path).
C5_Witness ==
    \E j, k \in 1..Len(futures) :
        /\ futures[j].state = "FINISHED" /\ ~futures[j].success
        /\ futures[j].error = "write"
        /\ futures[j].filepath = None
        /\ \E f \in fs : f.path = FilePath(futures[j].title)
                         /\ f.data = {<< j, "part" >>}
        /\ futures[k].state = "FINISHED" /\ futures[k].success
        /\ futures[k].status = 200 /\ futures[k].fetches = 1
        /\ \E f \in fs : f.path = futures[k].filepath
                         /\ f.data = {<< k, "whole" >>}

\* C6: a failing download neither affects its siblings nor escapes the
\* orchestrator: when some downloads fail (a status other than 200, or an
\* exception), search_and_download still runs every other task to its end,
\* raises no exception, and returns exactly the (title, path) pairs of the
\* tasks whose download reported success.
C6_FailuresAreIsolated ==
    LET Pair(i) == << all_results[futures[i].paper].title, futures[i].filepath >>
        Succeeded == {i \in 1..Len(futures) : futures[i].success}
    IN  /\ pc \notin {"raised", "blocked"}
        /\ pc # "done" => ENABLED MockNext
        /\ (pc = "done" /\ all_results # << >>) =>
              /\ \A i \in 1..Len(futures) : futures[i].state = "FINISHED"
              /\ Len(downloaded) = Cardinality(Succeeded)
              /\ \A k \in 1..Len(downloaded) :
                    Cardinality({m \in 1..Len(downloaded) :
                                    downloaded[m] = downloaded[k]})
                    = Cardinality({i \in Succeeded : Pair(i) = downloaded[k]})

\* The call has returned for MaxTasks eligible records of which exactly one
\* failed, on a status 500: one entry less than records is returned.
C6_Witness ==
    /\ pc = "done"
    /\ Len(futures) = MaxTasks
    /\ Cardinality({i \in 1..Len(futures) : ~futures[i].success}) = 1
    /\ \E i \in 1..Len(futures) : ~futures[i].success /\ futures[i].status = 500
    /\ Len(downloaded) = MaxTasks - 1

----------------------------------------------------------------------------
(* The end-to-end scenario *)

\* The titles of the scenario with the names they sanitize to and with the
\* paths of their files.
E2EAllTitles ==
    {E2ETitles[i] : i \in 1..Len(E2ETitles)}
    \cup {IneligibleTitle(k) : k \in Adapters}

SanitizedName == [t \in E2EAllTitles |-> sanitize_filename(t)]

PathWithPdfAppended ==
    [t \in E2EAllTitles |-> PathJoin(output_dir, SanitizedName[t] \o PdfSuffix)]

PathWithPdfOnce ==
    [t \in E2EAllTitles |->
        PathJoin(output_dir,
                 IF EndsWith(SanitizedName[t], PdfSuffix) THEN SanitizedName[t]
                 ELSE SanitizedName[t] \o PdfSuffix)]

\* C7 as stated: when every adapter returns one eligible and one ineligible
\* record, all titles sanitize to pairwise distinct filenames, the output
\* directory starts empty and every fetch returns 200, search_and_download
\* creates exactly one file per eligible record (8 for 8 adapters), each
\* named <sanitized title>.pdf, none for an ineligible record, and returns a
\* list as long as there are eligible records.
C7_OneFilePerSanitizedTitle ==
    LET Records == 1..Len(all_results)
        HasUrl(n) ==
            \E key \in {"url", "pdf_url"} :
                /\ key \in DOMAIN all_results[n]
                /\ all_results[n][key] # None
                /\ all_results[n][key] # << >>
        Elig == {n \in Records : HasUrl(n)}
        Name(n) == SanitizedName[all_results[n].title]
        Path(n) == PathWithPdfAppended[all_results[n].title]
    IN  (\A m, n \in Records : m # n => Name(m) # Name(n)) =>
            /\ \A f \in fs : \E n \in Elig : f.path = Path(n)
            /\ pc = "done" =>
                  /\ Cardinality(fs) = Cardinality(Elig)
                  /\ Cardinality(fs) = NumAdapters
                  /\ \A n \in Elig : \E f \in fs : f.path = Path(n)
                  /\ \A n \in Records \ Elig : ~\E f \in fs : f.path = Path(n)
                  /\ Len(downloaded) = Cardinality(Elig)

\* C7: when every adapter returns one eligible and one ineligible record,
\* the eligible titles lead to pairwise distinct file paths (the sanitized
\* title, with ".pdf" appended unless it already ends in ".pdf"), the output
\* directory starts empty and every fetch returns 200, search_and_download
\* creates exactly one file per eligible record (8 for 8 adapters), each at
\* that path and written whole by that record's task, creates no other
\* file, none for an ineligible record (whose path is none of those), and
\* returns a list as long as there are eligible records.
C7_OneFilePerDistinctPath ==
    LET Records == 1..Len(all_results)
        HasUrl(n) ==
            \E key \in {"url", "pdf_url"} :
                /\ key \in DOMAIN all_results[n]
                /\ all_results[n][key] # None
                /\ all_results[n][key] # << >>
        Elig == {n \in Records : HasUrl(n)}
        Path(n) == PathWithPdfOnce[all_results[n].title]
        TaskOf(n) == {i \in 1..Len(futures) : futures[i].paper = n}
        Paths == {Path(n) : n \in Elig}
    IN  Cardinality(Paths) = Cardinality(Elig) =>
            /\ \A f \in fs : f.path \in Paths
            /\ \A n \in Records \ Elig : Path(n) \notin Paths
            /\ pc = "done" =>
                  /\ Cardinality(Elig) = NumAdapters
                  /\ Cardinality(fs) = NumAdapters
                  /\ \A n \in Elig :
                        \E f \in fs :
                            /\ f.path = Path(n)
                            /\ f.data = {<< i, "whole" >> : i \in TaskOf(n)}
                  /\ Len(downloaded) = NumAdapters

\* The call has returned for the scenario's sixteen records: eight files
\* are there, among them a.pdf for the title "a.pdf" and ab.pdf for "a/b".
C7_Witness ==
    /\ pc = "done"
    /\ Len(all_results) = 2 * NumAdapters
    /\ all_results[1].title = TitleA \o PdfSuffix
    /\ Cardinality(fs) = NumAdapters
    /\ Len(downloaded) = NumAdapters
    /\ \E f \in fs : f.path = PathJoin(output_dir, TitleA \o PdfSuffix)
    /\ \E f \in fs : f.path = PathJoin(output_dir, << "a", "b" >> \o PdfSuffix)

----------------------------------------------------------------------------
(* Properties of the adapters *)

\* C8: for each of the eight adapters, a response whose status is not 200
\* and an exception at the adapter's top level (a transport error, or an
\* error of any class while parsing the payload) make the adapter return an
\* empty list instead of raising, so that search_and_download goes on to the
\* remaining adapters and to the download phase.
C8_AdapterFailureYieldsEmptyList ==
    /\ pc # "raised"
    /\ ( /\ met.adapter # 0
         /\ pc = "search"
         /\ \/ met.exc \in {"RequestException", "Exception"}
            \/ met.status # 200
            \/ met.parse # "none" )
       => /\ Len(results) = met.adapter
          /\ results[met.adapter] = << >>

\* C9: every HTTP request issued by an adapter or by the download worker
\* (every GET, and the HEAD of ERIC) carries a timeout of 30 seconds, so
\* that no request blocks search_and_download for ever.
C9_EveryRequestHasTimeout ==
    /\ \A r \in requests : r.timeout = 30
    /\ pc # "blocked"

----------------------------------------------------------------------------
(* Properties of sanitize_filename *)

\* C10 as stated: for every input, sanitize_filename returns a string of
\* alphanumeric characters, spaces, hyphens, underscores and periods only,
\* of length at most 150; and for every input with more than 150 characters
\* left after the disallowed characters are filtered out, the output ends
\* in "...".
C10_LongAfterFilteringEndsInEllipsis ==
    san_called =>
        LET kept == {i \in 1..Len(san_in) :
                        san_in[i] \in AlnumChars \cup {" ", "-", "_", "."}}
        IN  /\ \A i \in 1..Len(san_out) :
                  san_out[i] \in AlnumChars \cup {" ", "-", "_", "."}
            /\ Len(san_out) <= 150
            /\ Cardinality(kept) > 150 =>
                  /\ Len(san_out) >= 3
                  /\ SubSeq(san_out, Len(san_out) - 2, Len(san_out))
                         = << ".", ".", "." >>

\* C10: for every input, sanitize_filename returns a string of alphanumeric
\* characters, spaces, hyphens, underscores and periods only, of length at
\* most 150; and for every input with more than 150 characters left after
\* the disallowed characters are filtered out and the runs of whitespace
\* are collapsed (leading and trailing whitespace dropped), the output ends
\* in "...".
C10_LongAfterCollapsingEndsInEllipsis ==
    san_called =>
        LET Allowed == AlnumChars \cup {" ", "-", "_", "."}
            kept == SelectSeq(san_in, LAMBDA c : c \in Allowed)
            \* the positions left: no space first, last or after a space
            left == {i \in 1..Len(kept) :
                        \/ kept[i] # " "
                        \/ /\ i > 1 /\ kept[i - 1] # " "
                           /\ \E j \in (i + 1)..Len(kept) : kept[j] # " "}
        IN  /\ \A i \in 1..Len(san_out) : san_out[i] \in Allowed
            /\ Len(san_out) <= 150
            /\ Cardinality(left) > 150 =>
                  /\ Len(san_out) >= 3
                  /\ SubSeq(san_out, Len(san_out) - 2, Len(san_out))
                         = << ".", ".", "." >>

\* A call whose input keeps more than 150 characters through filtering and
\* collapsing, and one of them a removed character: the output is cut.
C10_Witness ==
    /\ san_called
    /\ Len(CollapseWhitespace(FilterChars(san_in))) > MaxNameLen
    /\ Len(FilterChars(san_in)) < Len(san_in)
    /\ Len(san_out) = MaxNameLen
    /\ EndsWith(san_out, Ellipsis)

\* C11: sanitize_filename is total and idempotent: for every input string,
\* also one that is cut and one that ends in spaces or periods, it returns a
\* string (it does not raise), sanitizing its result again gives the same
\* string, and the empty string is mapped to the empty string.
C11_SanitizeIsIdempotent ==
    /\ san_called =>
          /\ san_out # None
          /\ \A i \in 1..Len(san_out) : Len(san_out[i]) = 1
          /\ san_in = << >> => san_out = << >>
    /\ san_twice # None => san_twice = san_out

\* An input ending in a space or a period was cut by the first call, which
\* changed it, and the second call has returned the same string.
C11_Witness ==
    /\ san_twice = san_out
    /\ san_in # san_out
    /\ san_in # << >>
    /\ san_in[Len(san_in)] \in {" ", "."}
    /\ Len(san_in) > 150
    /\ Len(san_out) = 150

----------------------------------------------------------------------------
(* Properties of concurrent downloads and of the order of the steps *)

\* C12: when two eligible records of one call have titles that sanitize to
\* the same filename, the second download is skipped because the file
\* exists: at most one of the two tasks issues the HTTP fetch and writes
\* that path, and no two workers are writing the same path at the same time.
C12_OneWriterPerPath ==
    \A i, j \in 1..Len(futures) :
        (i # j /\ FilePath(futures[i].title) = FilePath(futures[j].title)) =>
            /\ futures[i].fetches + futures[j].fetches <= 1
            /\ ~(futures[i].step = "write" /\ futures[j].step = "write")
            /\ \A f \in fs : f.path = FilePath(futures[i].title) =>
                  ~(\E x, y \in {"whole", "part"} :
                        << i, x >> \in f.data /\ << j, y >> \in f.data)

\* C13: search_and_download runs the eight adapters one at a time in the
\* order arXiv, Semantic Scholar, PMC, Google Scholar, Google Books,
\* Wikibooks, ERIC, OpenLibrary; no download task is submitted or started
\* before the last adapter has returned; the accumulated list is the
\* concatenation of the adapters' results in that order, each in its own
\* order; and if it is empty the call returns an empty list without
\* starting a download.
C13_AdaptersInOrderThenDownloads ==
    [][LET Order == << {"arxiv"}, {"semantic"}, {"pmc", "pmc-efetch"},
                       {"scholar"}, {"books"},
                       {"wikibooks", "wikibooks-page"}, {"eric", "eric-pdf"},
                       {"openlibrary"} >>
           searching == {"search", "raised", "blocked"}
       IN  /\ (\E r \in requests' : r.by # "download") =>
                 /\ pc = "search"
                 /\ Len(results) < 8
                 /\ \A r \in requests' : r.by \in Order[Len(results) + 1]
                 /\ \/ results' = results /\ pc' \in {"raised", "blocked"}
                    \/ Len(results') = Len(results) + 1 /\ pc' = "search"
           /\ Len(results') # Len(results) =>
                 /\ SubSeq(results', 1, Len(results)) = results
                 /\ \E r \in requests' : r.by \in Order[Len(results')]
           /\ pc' \in searching =>
                 /\ submitted' = 0
                 /\ futures' = << >>
                 /\ fs' = fs
                 /\ \A r \in requests' : r.by # "download"
           /\ pc' \notin searching =>
                 /\ Len(results') = 8
                 /\ all_results' = results'[1] \o results'[2] \o results'[3]
                                   \o results'[4] \o results'[5] \o results'[6]
                                   \o results'[7] \o results'[8]
           /\ (pc' = "done" /\ all_results' = << >>) =>
                 /\ futures' = << >>
                 /\ submitted' = 0
                 /\ downloaded' = << >>
                 /\ fs' = fs]_vars

\* The call has returned after ERIC and OpenLibrary found one record each:
\* the two are accumulated in that order and both were downloaded.
C13_Witness ==
    /\ pc = "done"
    /\ Len(results) = 8
    /\ Len(results[7]) = 1 /\ Len(results[8]) = 1
    /\ all_results = << results[7][1], results[8][1] >>
    /\ results[7][1] # results[8][1]
    /\ Len(futures) = 2
    /\ Len(downloaded) = 2


\* The ID search answered with status 200 and a list of IDs that is not
\* empty.
C14_IdSearchOk ==
    /\ call.resp.exc = "none"
    /\ call.resp.status = OK
    /\ call.resp.parse = "none"
    /\ call.resp.ids

\* C14: the PMC adapter issues its detail request (efetch) only when the ID
\* search (esearch) answered with status 200 and a non-empty ID list; when
\* the ID search fails, answers another status or answers no ID, the adapter
\* returns the empty list and issues no second request; it issues at most
\* two requests in all.
C14_PmcTwoStepProtocol ==
    (call.adapter = PMC /\ pc # "search") =>
        LET efetch == \E r \in requests : r.by = "pmc-efetch"
            esearch == \E r \in requests : r.by = "pmc"
        IN  /\ esearch
            /\ efetch => C14_IdSearchOk
            /\ ~C14_IdSearchOk =>
                  /\ pc = "returned"
                  /\ results = << << >> >>
                  /\ ~efetch
            /\ \A r \in requests : r.by \in {"pmc", "pmc-efetch"}
            /\ Cardinality(requests) <= 2

C14_Witness ==
    /\ call.adapter = PMC
    /\ pc = "returned"
    /\ call.resp.ids
    /\ call.resp.status # OK
    /\ results = << << >> >>
    /\ Cardinality(requests) = 1


\* C15: for each arXiv feed entry the adapter uses the link tagged pdf or of
\* type application/pdf when there is one, and otherwise derives the PDF URL
\* from the entry's abs link (abs rewritten to pdf, .pdf appended); it drops
\* an entry only when the entry has neither a pdf-tagged link nor an abs link.
C15_AbsLinkIsTheFallback ==
    (/\ call.adapter = 1
     /\ pc = "returned"
     /\ call.resp.exc = "none"
     /\ call.resp.status = OK
     /\ call.resp.parse = "none") =>
        LET Tagged(l) == l.title = "pdf" \/ l.type = "application/pdf"
            IsAbs(l) == Contains(l.href, AbsWord)
            FirstAbs(ls) == ls[CHOOSE j \in 1..Len(ls) :
                                  /\ IsAbs(ls[j])
                                  /\ \A h \in 1..(j - 1) : ~IsAbs(ls[h])]
            Claimed(e) ==
                IF \E j \in 1..Len(e.links) : Tagged(e.links[j])
                THEN ArxivPdfUrl(e.links)
                ELSE IF \E j \in 1..Len(e.links) : IsAbs(e.links[j])
                THEN Replace(FirstAbs(e.links).href, AbsWord, PdfWord)
                        \o PdfSuffix
                ELSE None
            Kept(e) == ~e.raises /\ e.title # None /\ Claimed(e) # None
            kept == SelectSeq(call.resp.entries, Kept)
        IN  results[1] = [i \in 1..Len(kept) |->
                            [title |-> Strip(kept[i].title),
                             url |-> Claimed(kept[i])]]


C17_PartialFileIsTakenAsDownloaded ==
    [][\A i \in 1..Len(futures') :
          futures'[i].error = "write" =>
              /\ Exists(fs', FilePath(futures'[i].title))
              /\ \A j \in 1..Len(futures) :
                    (/\ futures[i].error = "write"
                     /\ FilePath(futures[j].title) = FilePath(futures[i].title)
                     /\ futures[j].state = "PENDING"
                     /\ futures'[j].state # "PENDING") =>
                        /\ futures'[j].state = "FINISHED"
                        /\ futures'[j].success
                        /\ futures'[j].filepath = FilePath(futures[i].title)
                        /\ futures'[j].fetches = 0
                        /\ requests' = {}]_vars

C17_Witness ==
    \E i, j \in 1..Len(futures) :
        /\ futures[i].error = "write"
        /\ futures[j].state = "FINISHED"
        /\ futures[j].success
        /\ futures[j].fetches = 0
        /\ futures[j].title # futures[i].title
        /\ futures[j].filepath = FilePath(futures[i].title)
        /\ \E f \in fs : f.path = futures[j].filepath
                          /\ f.data = {<< i, "part" >>}
        /\ << futures[j].title, futures[j].filepath >> \in
              {downloaded[n] : n \in 1..Len(downloaded)}



\* The successful tasks in the order they completed, and what the returned
\* list holds for the n-th of them.
C18_Successes ==
    SelectSeq(completed.order, LAMBDA c : futures[c[1]].success)

C18_Entry(n) ==
    << futures[C18_Successes[n][1]].title,
       futures[C18_Successes[n][1]].filepath >>

\* C18 (as stated): every download task is submitted before a result is
\* collected, and the returned list holds the successful tasks in the order
\* in which they completed.
C18_ReturnedInCompletionOrder ==
    /\ (pc \in {"collect", "done"} \/ downloaded # << >>) =>
          submitted = Len(all_results)
    /\ pc = "done" =>
          downloaded = [n \in 1..Len(C18_Successes) |-> C18_Entry(n)]

\* C18 (amended): every download task is submitted before a result is
\* collected, and the returned list holds the successful tasks in the order
\* in which as_completed yielded them: first the tasks that were complete
\* when the collection started, in no order the code fixes, then the others
\* in the order in which they completed.
C18_ReturnedInYieldOrder ==
    /\ (pc \in {"collect", "done"} \/ downloaded # << >>) =>
          submitted = Len(all_results)
    /\ pc = "done" =>
          LET before == {n \in 1..Len(C18_Successes) : ~C18_Successes[n][2]}
              after == {n \in 1..Len(C18_Successes) : C18_Successes[n][2]}
          IN  /\ Len(downloaded) = Len(C18_Successes)
              /\ \A n \in before : \A k \in after : n < k
              /\ {downloaded[n] : n \in before} = {C18_Entry(n) : n \in before}
              /\ \A n \in after : downloaded[n] = C18_Entry(n)

C18_Witness ==
    /\ pc = "done"
    /\ completed.order = << << 1, FALSE >>, << 2, FALSE >>, << 4, TRUE >>,
                            << 3, TRUE >> >>
    /\ \A i \in 1..4 : futures[i].success /\ futures[i].fetches = 1
    /\ downloaded = << C18_Entry(2), C18_Entry(1), C18_Entry(3), C18_Entry(4) >>

============================================================================
